---- MODULE Spec2Model ----
(***************************************************************************)
(* Newton-Raphson fractal script (src/Fractal_exercis_new.py).             *)
(*                                                                         *)
(* The script has three grid sections: the cubic z^3-1 on the full grid    *)
(* (lines 74-111), the cubic on a zoomed grid (lines 139-163) and the      *)
(* degree-9 polynomial (lines 205-254).  Each section builds a grid with   *)
(* linspace/meshgrid/dstack, calls the solver at every grid point in       *)
(* row-major order, stores log10(counter) and scatters one coloured point. *)
(*                                                                         *)
(* Numbers.  Python floats are modelled as fixed-point reals: an integer v *)
(* stands for v / Scale.  A complex number is a pair <<re, im>>.  Every    *)
(* arithmetic operator is written the way CPython evaluates it (complex    *)
(* product, Smith's complex quotient, binary powering) with each real      *)
(* product and quotient rounded to the nearest representable value.        *)
(* Values whose magnitude leaves MaxAbs are outside the modelled range     *)
(* (NaN below); a solver step that would need one is not taken.            *)
(***************************************************************************)
EXTENDS Integers, Sequences, FiniteSets, TLC

-----------------------------------------------------------------------------
(* Bounds of the exploration *)

MaxN == 3
MaxM == 6
MaxAbs == 300000

(* Fixed-point resolution: 1 unit = 1/Scale *)
Scale == 100

-----------------------------------------------------------------------------
(* Real arithmetic *)

Abs(a) == IF a < 0 THEN -a ELSE a

\* a / b rounded to the nearest integer (b # 0)
Rnd(a, b) == IF b > 0 THEN (2 * a + b) \div (2 * b)
                      ELSE (2 * (-a) + (-b)) \div (2 * (-b))

\* float product a*b; a * (b \div Scale) + Rnd(a * (b % Scale), Scale) is
\* Rnd(a * b, Scale) evaluated without leaving 32 bits
Mul(a, b) == a * (b \div Scale) + Rnd(a * (b % Scale), Scale)

\* float quotient a/b (b # 0)
Div(a, b) == Rnd(a * Scale, b)

-----------------------------------------------------------------------------
(* Complex arithmetic *)

NaN == <<>>

Fin(z) == IF z = NaN THEN NaN
          ELSE IF Abs(z[1]) <= MaxAbs /\ Abs(z[2]) <= MaxAbs THEN z ELSE NaN

Complex(re, im) == <<re * Scale, im * Scale>>

CAdd(x, y) == IF x = NaN \/ y = NaN THEN NaN ELSE <<x[1] + y[1], x[2] + y[2]>>

CSub(x, y) == IF x = NaN \/ y = NaN THEN NaN ELSE <<x[1] - y[1], x[2] - y[2]>>

\* int * complex: the int is promoted to complex(k, 0); the product with a
\* zero imaginary part is the componentwise multiple
CScale(k, x) == IF x = NaN THEN NaN ELSE <<k * x[1], k * x[2]>>

\* _Py_c_prod
CProd(x, y) ==
    IF x = NaN \/ y = NaN THEN NaN
    ELSE Fin(<<Mul(x[1], y[1]) - Mul(x[2], y[2]),
               Mul(x[1], y[2]) + Mul(x[2], y[1])>>)

\* _Py_c_quot for a divisor b # 0 (Smith's method)
CQuot(a0, b0) ==
    LET a == Fin(a0)
        b == Fin(b0)
    IN  IF a = NaN \/ b = NaN \/ b = <<0, 0>> THEN NaN
        ELSE IF Abs(b[1]) >= Abs(b[2])
             THEN LET ratio == Div(b[2], b[1])
                      denom == b[1] + Mul(b[2], ratio)
                  IN  Fin(<<Div(a[1] + Mul(a[2], ratio), denom),
                            Div(a[2] - Mul(a[1], ratio), denom)>>)
             ELSE LET ratio == Div(b[1], b[2])
                      denom == Mul(b[1], ratio) + b[2]
                  IN  Fin(<<Div(Mul(a[1], ratio) + a[2], denom),
                            Div(Mul(a[2], ratio) - a[1], denom)>>)

\* c_powu: binary powering, r the accumulated result, p the running square
RECURSIVE c_powu(_, _, _)
c_powu(r, p, n) ==
    LET r2 == IF n % 2 = 1 THEN CProd(r, p) ELSE r
    IN  IF n \div 2 = 0 THEN r2 ELSE c_powu(r2, CProd(p, p), n \div 2)

\* z ** n for a small positive integer n
CPow(z, n) == c_powu(Complex(1, 0), Fin(z), n)

-----------------------------------------------------------------------------
(* The two polynomials and their Newton updates *)

\* def f(z): return z**3 - 1
f(z) == Fin(CSub(CPow(z, 3), Complex(1, 0)))

\* variant of NR_num with the sign of the constant term flipped
NR_num_slip(z) == Fin(CAdd(CPow(z, 3), Complex(1, 0)))

\* numerator and denominator of the quotient in Newton_Raphson
NR_num(z) == Fin(CSub(CPow(z, 3), Complex(1, 0)))

NR_den(z) == Fin(CScale(3, CPow(z, 2)))

\* def Newton_Raphson(z): z_new = z - (z**3 - 1)/(3*z**2)
Newton_Raphson(z) == Fin(CSub(z, CQuot(NR_num(z), NR_den(z))))

\* 35 * z**9 - 180 * z**7 + 378 * z**5 - 420 * z**3 + 315 * z
Poly9(z) ==
    CAdd(CSub(CAdd(CSub(CScale(35, CPow(z, 9)), CScale(180, CPow(z, 7))),
                   CScale(378, CPow(z, 5))),
              CScale(420, CPow(z, 3))),
         CScale(315, z))

\* def f2(z)
f2(z) == Fin(Poly9(z))

NR2_num(z) == Fin(Poly9(z))

\* 35*9*z**8 - 180*7*z**6 + 378*5*z**4 - 420*3*z**2 + 315
NR2_den(z) ==
    Fin(CAdd(CSub(CAdd(CSub(CScale(35 * 9, CPow(z, 8)),
                            CScale(180 * 7, CPow(z, 6))),
                       CScale(378 * 5, CPow(z, 4))),
                  CScale(420 * 3, CPow(z, 2))),
             Complex(315, 0)))

\* def Newton_Raphson2(z)
Newton_Raphson2(z) == Fin(CSub(z, CQuot(NR2_num(z), NR2_den(z))))

\* the section decides which solver is called: solve_cnewton in the cubic
\* and zoom sections, solve_cnewton2 in the degree-9 section
Residual(sec, z) == IF sec = "deg9" THEN f2(z) ELSE f(z)

Numerator(sec, z) == IF sec = "deg9" THEN NR2_num(z) ELSE NR_num(z)

Denominator(sec, z) == IF sec = "deg9" THEN NR2_den(z) ELSE NR_den(z)

Update(sec, z) == IF sec = "deg9" THEN Newton_Raphson2(z) ELSE Newton_Raphson(z)

\* the quotient raises ZeroDivisionError: "complex division by zero"
DivisionByZero(sec, z) ==
    Numerator(sec, z) # NaN /\ Denominator(sec, z) = <<0, 0>>

\* the whole loop body stays inside the modelled range
InRange(sec, z) ==
    /\ ~DivisionByZero(sec, z)
    /\ Update(sec, z) # NaN
    /\ Residual(sec, Update(sec, z)) # NaN

-----------------------------------------------------------------------------
(* Configuration constants of the script, in units of 1/Scale.  The two     *)
(* tolerances (1e-9, 1e-6) lie below the resolution and are represented by  *)
(* the smallest positive value: a difference is below them iff it is zero.  *)

tolerance == 1
tolerance2 == 1

\* abs(d) < tol for a complex d: hypot(d.real, d.imag) < tol
AbsLess(d, tol) ==
    /\ Abs(d[1]) < tol
    /\ Abs(d[2]) < tol
    /\ d[1] * d[1] + d[2] * d[2] < tol * tol

\* np.log10(n) for n >= 1, rounded to 1/Scale
Log10Tab ==
    <<0, 30, 48, 60, 70, 78, 85, 90, 95, 100, 104, 108, 111, 115, 118,
      120, 123, 126, 128, 130, 132, 134, 136, 138, 140, 141, 143, 145,
      146, 148, 149, 151, 152, 153, 154, 156, 157, 158, 159, 160>>

log10(n) == Log10Tab[n]

-----------------------------------------------------------------------------
(* Grid construction: np.linspace, np.meshgrid, np.dstack *)

\* np.linspace(start, stop, num) for num >= 0, as a function on 0..num-1:
\* step = delta/div; y = arange(num)*step + start (or arange(num)/div*delta
\* + start when the step is zero); the last sample is set to stop
linspace(start, stop, num) ==
    LET div == num - 1
        delta == stop - start
        step == IF div > 0 THEN Rnd(delta, div) ELSE 0
        y(k) == IF div > 0 /\ step # 0 THEN k * step + start
                ELSE IF div > 0 THEN Mul(Rnd(k * Scale, div), delta) + start
                ELSE k * delta + start
    IN  [k \in 0..(num - 1) |-> IF num > 1 /\ k = num - 1 THEN stop ELSE y(k)]

\* variant of meshgrid with indexing='ij': X[r][c] = xv[r], Y[r][c] = yv[c]
meshgrid_ij(xv, yv, n) ==
    <<[r \in 0..(n - 1) |-> [c \in 0..(n - 1) |-> xv[r]]],
      [r \in 0..(n - 1) |-> [c \in 0..(n - 1) |-> yv[c]]]>>

\* np.meshgrid(xv, yv) with the default indexing='xy': both results have
\* shape (len(yv), len(xv)); X[r][c] = xv[c] and Y[r][c] = yv[r]
meshgrid(xv, yv, n) ==
    <<[r \in 0..(n - 1) |-> [c \in 0..(n - 1) |-> xv[c]]],
      [r \in 0..(n - 1) |-> [c \in 0..(n - 1) |-> yv[r]]]>>

\* np.dstack((x, y)): grid[r][c] = (x[r][c], y[r][c])
dstack(xy, n) ==
    [r \in 0..(n - 1) |-> [c \in 0..(n - 1) |-> <<xy[1][r][c], xy[2][r][c]>>]]

\* np.zeros((n, n))
zeros(n) == [r \in 0..(n - 1) |-> [c \in 0..(n - 1) |-> 0]]

-----------------------------------------------------------------------------
(* Classification branches *)

\* expected root coordinates of the branches, rounded to 1/Scale
Root3Im == 87
Root9aRe == 94
Root9aIm == 65
Root9bRe == 149
Root9bIm == 30

\* variant of ClassifyCubic whose second branch tests root.imag + 0.866...
ClassifyCubic_slip(root) ==
    IF Abs(root[1] - 1 * Scale) < tolerance2 THEN "k"
    ELSE IF Abs(root[2] + Root3Im) < tolerance2 THEN "g"
    ELSE "r"

\* if / elif / else of the cubic sections
ClassifyCubic(root) ==
    IF Abs(root[1] - 1 * Scale) < tolerance2 THEN "k"
    ELSE IF Abs(root[2] - Root3Im) < tolerance2 THEN "g"
    ELSE "r"

\* if / elif ... / else of the degree-9 section
ClassifyDeg9(root) ==
    IF Abs(root[1] - 0) < tolerance2 THEN "k"
    ELSE IF Abs(root[1] - Root9aRe) < tolerance2 /\ Abs(root[2] - Root9aIm) < tolerance2
    THEN "g"
    ELSE IF Abs(root[1] - Root9aRe) < tolerance2 /\ Abs(root[2] + Root9aIm) < tolerance2
    THEN "r"
    ELSE IF Abs(root[1] + Root9aRe) < tolerance2 /\ Abs(root[2] - Root9aIm) < tolerance2
    THEN "darkorchid"
    ELSE IF Abs(root[1] + Root9aRe) < tolerance2 /\ Abs(root[2] + Root9aIm) < tolerance2
    THEN "orange"
    ELSE IF Abs(root[1] + Root9bRe) < tolerance2 /\ Abs(root[2] - Root9bIm) < tolerance2
    THEN "yellow"
    ELSE IF Abs(root[1] + Root9bRe) < tolerance2 /\ Abs(root[2] + Root9bIm) < tolerance2
    THEN "cyan"
    ELSE IF Abs(root[1] - Root9bRe) < tolerance2 /\ Abs(root[2] - Root9bIm) < tolerance2
    THEN "w"
    ELSE "pink"

Classify(sec, root) ==
    IF sec = "deg9" THEN ClassifyDeg9(root) ELSE ClassifyCubic(root)

-----------------------------------------------------------------------------
(* State *)

VARIABLES
    pc,            \* position of the section's code
    section,       \* "cubic" (lines 74-111), "zoom" (139-163), "deg9" (205-254)
    M, N,          \* the globals M and N
    grid_point1, grid_point2,
    grid,          \* the global grid, <<>> before it is built
    log_n_matrix,  \* the global log_n_matrix, <<>> before it is allocated
    scatter,       \* the points handed to plt.scatter, in order: <<x, y, c>>
    i, j,          \* indices of the grid loop
    caller,        \* which call site the running solver returns to
    duplet,        \* argument of the running solver call
    z, counter, it,\* locals z, counter and i of the solver
    outcome,       \* value returned by the last solver call, None after a
                   \* fall through
    err,           \* exception that ended the section, "" if none
    runs,          \* history: the outcome of every solver call that returned
    marks          \* history: <<i, j, root, c>> of every scattered point

vars == <<pc, section, M, N, grid_point1, grid_point2, grid, log_n_matrix,
          scatter, i, j, caller, duplet, z, counter, it, outcome, err, runs,
          marks>>

config == <<section, M, N, grid_point1, grid_point2>>

solver == <<duplet, z, counter, it>>

None == <<>>

Sections == {"cubic", "zoom", "deg9"}

\* corner pairs <<grid_point1, grid_point2>> explored per section.  The first
\* pair of the cubic and of the zoom section is the one written in the
\* script, rounded to 1/Scale; the script's corners of the degree-9 section,
\* (-2, 2) and (2, -2), start outside the modelled range.
Corners(sec) ==
    IF sec = "cubic"
    THEN {<<(<<-200, 200>>), (<<200, -200>>)>>,
          <<(<<100, 0>>), (<<200, -200>>)>>,
          <<(<<-50, 150>>), (<<100, -150>>)>>}
    ELSE IF sec = "zoom"
    THEN {<<(<<36, -101>>), (<<37, -105>>)>>}
    ELSE {<<(<<-110, -50>>), (<<110, -60>>)>>,
          <<(<<0, 0>>), (<<60, -40>>)>>}

Init ==
    /\ section \in Sections
    /\ N \in -1..MaxN
    /\ M \in 0..MaxM
    /\ \E c \in Corners(section) : grid_point1 = c[1] /\ grid_point2 = c[2]
    /\ pc = "start"
    /\ grid = <<>>
    /\ log_n_matrix = <<>>
    /\ scatter = <<>>
    /\ i = 0
    /\ j = 0
    /\ caller = ""
    /\ duplet = <<0, 0>>
    /\ z = <<0, 0>>
    /\ counter = 0
    /\ it = 0
    /\ outcome = None
    /\ err = ""
    /\ runs = <<>>
    /\ marks = <<>>

-----------------------------------------------------------------------------
(* The solver: solve_cnewton / solve_cnewton2 *)

\* variant of Call that leaves counter as the previous call left it
Call_keep(d, site) ==
    /\ duplet' = d
    /\ z' = <<d[1], d[2]>>
    /\ counter' = counter
    /\ it' = 0
    /\ caller' = site
    /\ pc' = "solving"

\* counter = 0; x_duplet, y_duplet = duplet; z = complex(x_duplet, y_duplet)
Call(d, site) ==
    /\ duplet' = d
    /\ z' = <<d[1], d[2]>>
    /\ counter' = 0
    /\ it' = 0
    /\ caller' = site
    /\ pc' = "solving"

\* if f_new == 0 or abs(z_new - z) < tolerance
Converged(f_new, z_new, z_old) ==
    f_new = <<0, 0>> \/ AbsLess(CSub(z_new, z_old), tolerance)

\* elif i == M - 1
LastAttempt(k, m) == k = m - 1

\* variant of Outcome that reports the counter before its increment
Outcome_stale(d, z_new, f_new, c) ==
    <<d[1], d[2], z_new, f_new, c - 1, log10(c)>>

\* return x_duplet, y_duplet, z_new, f_new, counter, np.log10(counter)
Outcome(d, z_new, f_new, c) == <<d[1], d[2], z_new, f_new, c, log10(c)>>

\* one pass through the body of "for i in range(M)" that raises nothing
LoopBody ==
    /\ pc = "solving"
    /\ it < M
    /\ InRange(section, z)
    /\ LET z_new == Update(section, z)
           c == counter + 1
           f_new == Residual(section, z_new)
       IN  /\ counter' = c
           /\ IF Converged(f_new, z_new, z) \/ LastAttempt(it, M)
              THEN /\ outcome' = Outcome(duplet, z_new, f_new, c)
                   /\ runs' = Append(runs, outcome')
                   /\ pc' = "returned"
                   /\ UNCHANGED <<z, it>>
              ELSE /\ z' = z_new
                   /\ it' = it + 1
                   /\ UNCHANGED <<outcome, runs, pc>>
    /\ UNCHANGED <<config, grid, log_n_matrix, scatter, i, j, caller, duplet,
                   err, marks>>

\* the quotient in Newton_Raphson / Newton_Raphson2 divides by zero; the
\* exception is caught nowhere and ends the section
ZeroDivision ==
    /\ pc = "solving"
    /\ it < M
    /\ DivisionByZero(section, z)
    /\ pc' = "crashed"
    /\ err' = "ZeroDivisionError"
    /\ UNCHANGED <<config, grid, log_n_matrix, scatter, i, j, caller, solver,
                   outcome, runs, marks>>

\* range(M) is empty: the function ends without a return statement
FallThrough ==
    /\ pc = "solving"
    /\ it >= M
    /\ outcome' = None
    /\ pc' = "returned"
    /\ UNCHANGED <<config, grid, log_n_matrix, scatter, i, j, caller, solver,
                   err, runs, marks>>

\* the call sites unpack six values; None cannot be unpacked
UnpackNone ==
    /\ pc = "returned"
    /\ outcome = None
    /\ pc' = "crashed"
    /\ err' = "TypeError"
    /\ UNCHANGED <<config, grid, log_n_matrix, scatter, i, j, caller, solver,
                   outcome, runs, marks>>

-----------------------------------------------------------------------------
(* The section's top-level code *)

\* np.linspace raises ValueError for a negative number of samples
LinspaceValueError ==
    /\ pc = "start"
    /\ N < 0
    /\ pc' = "crashed"
    /\ err' = "ValueError"
    /\ UNCHANGED <<config, grid, log_n_matrix, scatter, i, j, caller, solver,
                   outcome, runs, marks>>

\* x_values, y_values, meshgrid, dstack
BuildGrid ==
    /\ pc = "start"
    /\ N >= 0
    /\ grid' = dstack(meshgrid(linspace(grid_point1[1], grid_point2[1], N),
                               linspace(grid_point1[2], grid_point2[2], N), N), N)
    /\ pc' = IF section = "zoom" THEN "alloc" ELSE "test"
    /\ UNCHANGED <<config, log_n_matrix, scatter, i, j, caller, solver,
                   outcome, err, runs, marks>>

\* solve_cnewton(grid[2][1])   # test
TestCall ==
    /\ pc = "test"
    /\ N >= 3
    /\ Call(grid[2][1], "test")
    /\ UNCHANGED <<config, grid, log_n_matrix, scatter, i, j, outcome, err,
                   runs, marks>>

\* grid[2] is out of bounds for fewer than three rows
TestIndexError ==
    /\ pc = "test"
    /\ N < 3
    /\ pc' = "crashed"
    /\ err' = "IndexError"
    /\ UNCHANGED <<config, grid, log_n_matrix, scatter, i, j, caller, solver,
                   outcome, runs, marks>>

\* print(x_duplet, y_duplet, root, f_root, counter, log_counter)
TestPrint ==
    /\ pc = "returned"
    /\ caller = "test"
    /\ outcome # None
    /\ pc' = "alloc"
    /\ UNCHANGED <<config, grid, log_n_matrix, scatter, i, j, caller, solver,
                   outcome, err, runs, marks>>

\* log_n_matrix = np.zeros((N,N)); plt.figure(); the loops start
AllocMatrix ==
    /\ pc = "alloc"
    /\ log_n_matrix' = zeros(N)
    /\ i' = 0
    /\ j' = 0
    /\ pc' = "loop"
    /\ UNCHANGED <<config, grid, scatter, caller, solver, outcome, err, runs,
                   marks>>

\* solve_cnewton(grid[i][j]) inside the two loops
LoopCall ==
    /\ pc = "loop"
    /\ i < N
    /\ Call(grid[i][j], "loop")
    /\ UNCHANGED <<config, grid, log_n_matrix, scatter, i, j, outcome, err,
                   runs, marks>>

\* log_n_matrix[i][j] = log_counter (absent from the zoom section's loop)
Store(matrix, sec, r, c, log_counter) ==
    IF sec = "zoom" THEN matrix
    ELSE [matrix EXCEPT ![r] = [@ EXCEPT ![c] = log_counter]]

\* the rest of the loop body after the call returned: store, classify,
\* scatter, and step j (then i)
StoreAndClassify ==
    /\ pc = "returned"
    /\ caller = "loop"
    /\ outcome # None
    /\ log_n_matrix' = Store(log_n_matrix, section, i, j, outcome[6])
    /\ LET c == Classify(section, outcome[3])
       IN  /\ scatter' = Append(scatter, <<outcome[1], outcome[2], c>>)
           /\ marks' = Append(marks, <<i, j, outcome[3], c>>)
    /\ IF j + 1 < N THEN j' = j + 1 /\ i' = i
                    ELSE j' = 0 /\ i' = i + 1
    /\ pc' = "loop"
    /\ UNCHANGED <<config, grid, caller, solver, outcome, err, runs>>

\* both loops are exhausted
Finish ==
    /\ pc = "loop"
    /\ i >= N
    /\ pc' = "done"
    /\ UNCHANGED <<config, grid, log_n_matrix, scatter, i, j, caller, solver,
                   outcome, err, runs, marks>>

Next ==
    \/ LinspaceValueError
    \/ BuildGrid
    \/ TestCall
    \/ TestIndexError
    \/ TestPrint
    \/ AllocMatrix
    \/ LoopCall
    \/ LoopBody
    \/ ZeroDivision
    \/ FallThrough
    \/ UnpackNone
    \/ StoreAndClassify
    \/ Finish

Spec == Init /\ [][Next]_vars

-----------------------------------------------------------------------------
(* Properties *)

\* fields of an outcome tuple
Start(r) == <<r[1], r[2]>>

\* grid point (r, c) has been scattered exactly k times
Labelled(r, c) == {n \in 1..Len(marks) : marks[n][1] = r /\ marks[n][2] = c}

GridBuilt == pc # "start" /\ err # "ValueError"

\* C1: every outcome a solver call returned has 1 <= counter <= M, and its
\* log10(counter) lies between 0 and log10(M)
C1_CounterBounds ==
    \A k \in 1..Len(runs) :
        /\ 1 <= runs[k][5]
        /\ runs[k][5] <= M
        /\ 0 <= runs[k][6]
        /\ runs[k][6] <= log10(M)

\* a call returned on the last attempt and another one on the first
C1_Witness ==
    /\ M > 1
    /\ \E k \in 1..Len(runs) : runs[k][5] = M
    /\ \E k \in 1..Len(runs) : runs[k][5] = 1

\* C2: once the grid pass has ended, each of the N*N grid points carries
\* exactly one label (a pass ended by an exception other than the division
\* by zero of C3 is left aside)
C2_ExactlyOneLabel ==
    (pc = "done" \/ (pc = "crashed" /\ err = "ZeroDivisionError" /\ caller = "loop"))
        => \A r, c \in 0..(N - 1) : Cardinality(Labelled(r, c)) = 1

\* C3: a zero derivative at one grid point stays local: when the section has
\* stopped after one, every other grid point has been solved and classified
C3_DivisionByZeroIsLocal ==
    (pc = "crashed" /\ err = "ZeroDivisionError" /\ caller = "loop")
        => \A r, c \in 0..(N - 1) : <<r, c>> # <<i, j>> => Labelled(r, c) # {}

\* exact linear interpolation a + (b - a) * k / (n - 1), rounded to 1/Scale
Lerp(a, b, k, n) == Rnd(a * (n - 1) + (b - a) * k, n - 1)

\* v equals w up to the rounding of k steps
Near(v, w, k) == Abs(v - w) <= k

CornersKept ==
    /\ grid[0][0] = grid_point1
    /\ grid[N - 1][N - 1] = grid_point2

\* C4 as stated: the first index selects the x position, the second the y
\* position, and the two corner entries are the supplied corners
C4_FirstIndexIsX ==
    (GridBuilt /\ N >= 1)
        => /\ CornersKept
           /\ N >= 2 =>
                \A r, c \in 0..(N - 1) :
                    /\ Near(grid[r][c][1], Lerp(grid_point1[1], grid_point2[1], r, N), r)
                    /\ Near(grid[r][c][2], Lerp(grid_point1[2], grid_point2[2], c, N), c)

\* C4 amended: for N >= 2 the second index selects the x position, the first
\* the y position, and the two corner entries are the supplied corners
C4_SecondIndexIsX ==
    (GridBuilt /\ N >= 2)
        => /\ CornersKept
           /\ \A r, c \in 0..(N - 1) :
                /\ Near(grid[r][c][1], Lerp(grid_point1[1], grid_point2[1], c, N), c)
                /\ Near(grid[r][c][2], Lerp(grid_point1[2], grid_point2[2], r, N), r)

\* a grid of at least two rows whose axes differ has been built
C4_Witness ==
    /\ GridBuilt
    /\ N >= 2
    /\ grid[0][N - 1] # grid[N - 1][0]

\* C5: a call started exactly at a root with a nonzero derivative returned
\* after one iteration with the start as estimate and a zero residual
C5_RootStart ==
    \A k \in 1..Len(runs) :
        LET z0 == Start(runs[k])
        IN  (Residual(section, z0) = <<0, 0>> /\ Denominator(section, z0) # <<0, 0>>)
                => /\ runs[k][5] = 1
                   /\ runs[k][3] = z0
                   /\ runs[k][4] = <<0, 0>>

\* a call started at the root 1+0i of the cubic has returned
C5_Witness ==
    /\ section # "deg9"
    /\ \E k \in 1..Len(runs) :
          Start(runs[k]) = Complex(1, 0) /\ f(Complex(1, 0)) = <<0, 0>>

\* C6: with N <= 0 or M <= 0 no solver call is started, nothing is labelled
\* or stored, and the section does not run to its end
C6_InvalidConfigRejected ==
    (N <= 0 \/ M <= 0)
        => /\ pc \notin {"solving", "returned", "done"}
           /\ runs = <<>>
           /\ scatter = <<>>

\* C7: two returned calls with the same starting duplet returned the same
\* outcome
C7_Deterministic ==
    \A a, b \in 1..Len(runs) :
        Start(runs[a]) = Start(runs[b]) => runs[a] = runs[b]

\* the same duplet was solved twice, with other calls in between
C7_Witness ==
    \E a, b \in 1..Len(runs) :
        a + 1 < b /\ Start(runs[a]) = Start(runs[b])

\* the k-th Newton iterate from z0
RECURSIVE Iterate(_, _, _)
Iterate(sec, z0, k) == IF k = 0 THEN z0 ELSE Update(sec, Iterate(sec, z0, k - 1))

\* the convergence test of the k-th attempt
TestHolds(sec, z0, k) ==
    LET z_k == Iterate(sec, z0, k)
    IN  Residual(sec, z_k) = <<0, 0>>
            \/ AbsLess(CSub(z_k, Iterate(sec, z0, k - 1)), tolerance)

\* the attempt the claim says the solver stops at
StopsAt(sec, z0, m) ==
    IF \E k \in 1..m : TestHolds(sec, z0, k)
    THEN CHOOSE k \in 1..m :
            TestHolds(sec, z0, k) /\ \A h \in 1..(k - 1) : ~TestHolds(sec, z0, h)
    ELSE m

\* C8: for M >= 1 a solver call always returns (it is not ended by a
\* division by zero), and it returns the iterate of the first attempt at
\* which the convergence test holds, or of the M-th attempt
C8_AlwaysReturnsAtFirstHit ==
    M >= 1 =>
        /\ ~(pc = "crashed" /\ err = "ZeroDivisionError")
        /\ \A k \in 1..Len(runs) :
              LET z0 == Start(runs[k])
              IN  /\ runs[k][5] = StopsAt(section, z0, M)
                  /\ runs[k][3] = Iterate(section, z0, runs[k][5])

\* the colours of the branches in source order, the last one the else
Labels(sec) ==
    IF sec = "deg9"
    THEN <<"k", "g", "r", "darkorchid", "orange", "yellow", "cyan", "w", "pink">>
    ELSE <<"k", "g", "r">>

\* whether |v - w| < tolerance2
Close(v, w) == Abs(v - w) < tolerance2

\* the conditions of the branches in source order
Preds(sec, root) ==
    IF sec = "deg9"
    THEN <<Close(root[1], 0),
           Close(root[1], Root9aRe) /\ Close(root[2], Root9aIm),
           Close(root[1], Root9aRe) /\ Close(root[2], -Root9aIm),
           Close(root[1], -Root9aRe) /\ Close(root[2], Root9aIm),
           Close(root[1], -Root9aRe) /\ Close(root[2], -Root9aIm),
           Close(root[1], -Root9bRe) /\ Close(root[2], Root9bIm),
           Close(root[1], -Root9bRe) /\ Close(root[2], -Root9bIm),
           Close(root[1], Root9bRe) /\ Close(root[2], Root9bIm),
           TRUE>>
    ELSE <<Close(root[1], Scale), Close(root[2], Root3Im), TRUE>>

\* C9: every scattered point has the colour of the first branch condition
\* its root satisfies; a root satisfying none of the tests has the last one
C9_FirstMatchWins ==
    \A n \in 1..Len(marks) :
        LET p == Preds(section, marks[n][3])
            l == Labels(section)
        IN  \E k \in 1..Len(p) :
                /\ p[k]
                /\ \A h \in 1..(k - 1) : ~p[h]
                /\ marks[n][4] = l[k]

\* one point was claimed by the else branch, one by the second branch
C9_Witness ==
    /\ \E n \in 1..Len(marks) : marks[n][4] = Labels(section)[Len(Labels(section))]
    /\ \E n \in 1..Len(marks) : marks[n][4] = "g"

\* C10: after the pass every slot [r][c] of log_n_matrix holds log10 of the
\* counter returned for grid[r][c]
C10_SlotsHoldLogCounter ==
    pc = "done" =>
        \A r, c \in 0..(N - 1) :
            \E k \in 1..Len(runs) :
                /\ Start(runs[k]) = grid[r][c]
                /\ log_n_matrix[r][c] = runs[k][6]

====
